---- MODULE Spec2Model ----
(***************************************************************************)
(* Model of src/Loopai/main.py: the ingestion service.                     *)
(*                                                                         *)
(* The service runs on one asyncio event loop, so the code between two     *)
(* suspension points of a coroutine is one atomic step.  The handlers      *)
(* ingest_data and get_status hold no await that suspends, so each is one  *)
(* action.  The worker process_queue suspends at asyncio.sleep(0.1)        *)
(* (line 68), at the acquisition of processing_lock inside process_batch   *)
(* (line 40), at each simulate_external_api call (line 44) and at          *)
(* asyncio.sleep(5) (line 75).                                             *)
(*                                                                         *)
(* uuid4 strings are modelled as numbers of the pool Uuids; the order of   *)
(* the numbers stands for the order of the strings, and uuid4() is a       *)
(* choice of any number not handed out before.  The field created_time of  *)
(* a job is written once and never read; it is left out.                   *)
(***************************************************************************)
EXTENDS Integers, Sequences, FiniteSets, TLC

\* ---- bounds of the model
MaxJobs == 2
MaxLen == 4
NumUuids == 4
MaxBatches == 4
MaxIngestJobs == 1

\* ---- constants of the program
BatchSize == 3
MaxItemId == 1000000007

\* ingestion_jobs   the dict of line 28, as the sequence of its values in insertion
\*                  order, each with its key: [ingestion_id, status, batches, priority];
\*                  batches is the job's dict of batches in insertion order, each
\*                  with its key: [batch_id, ids, status]
\* task_queue       the heapq list of line 29, of tuples <<key, ingestion_id, batch_id, ids>>
\* processing_lock  the asyncio.Lock of line 30: [locked, waiters]
\* is_processing    the flag of line 31
\* pc               the suspension point each task is at
\* frame            the arguments and the results list of each task's process_batch call
\* request          the request the last handler step received
\* response         the response the last handler step returned
VARIABLES ingestion_jobs, task_queue, processing_lock, is_processing, pc, frame, request, response

vars == <<ingestion_jobs, task_queue, processing_lock, is_processing, pc, frame, request, response>>

\* ---- types of the program
Priority == {"HIGH", "MEDIUM", "LOW"}

BatchStatus == {"yet_to_start", "triggered", "completed"}

Uuids == 1..NumUuids

Tasks == {"worker", "caller"}

NoFrame == [ingestion_id |-> 0, batch_id |-> 0, ids |-> <<>>, results |-> <<>>]

NoRequest == [op |-> "none"]

NoResponse == [code |-> 0]

\* ---- helpers
Min(a, b) == IF a < b THEN a ELSE b

SeqsUpTo(S, n) == UNION {[1..k -> S] : k \in 1..n}

InjSeqs(S, n) == {s \in [1..n -> S] : \A a, b \in 1..n : a # b => s[a] # s[b]}

\* The position of the job stored under a key of ingestion_jobs (0: no such key).
JobIndex(jobs, id) ==
    IF \E k \in 1..Len(jobs) : jobs[k].ingestion_id = id
    THEN CHOOSE k \in 1..Len(jobs) : jobs[k].ingestion_id = id
    ELSE 0

BatchIndex(job, bid) == CHOOSE i \in 1..Len(job.batches) : job.batches[i].batch_id = bid

UsedUuids(jobs) ==
    {jobs[k].ingestion_id : k \in 1..Len(jobs)}
        \cup UNION {{jobs[k].batches[i].batch_id : i \in 1..Len(jobs[k].batches)} : k \in 1..Len(jobs)}

\* ---- heapq (the standard library's binary heap on a list), positions from 0
RECURSIVE ListLess(_, _)
ListLess(a, b) ==
    IF a = <<>> THEN b # <<>>
    ELSE IF b = <<>> THEN FALSE
    ELSE IF a[1] # b[1] THEN a[1] < b[1]
    ELSE ListLess(Tail(a), Tail(b))

\* Python's < on the queue's tuples (key, ingestion_id, batch_id, ids).
TupleLess(a, b) ==
    \/ a[1] < b[1]
    \/ a[1] = b[1] /\ a[2] < b[2]
    \/ a[1] = b[1] /\ a[2] = b[2] /\ a[3] < b[3]
    \/ a[1] = b[1] /\ a[2] = b[2] /\ a[3] = b[3] /\ ListLess(a[4], b[4])

RECURSIVE siftdown(_, _, _, _)
siftdown(heap, startpos, pos, newitem) ==
    IF pos > startpos
    THEN LET parentpos == (pos - 1) \div 2
             parent == heap[parentpos + 1]
         IN  IF TupleLess(newitem, parent)
             THEN siftdown([heap EXCEPT ![pos + 1] = parent], startpos, parentpos, newitem)
             ELSE [heap EXCEPT ![pos + 1] = newitem]
    ELSE [heap EXCEPT ![pos + 1] = newitem]

RECURSIVE siftup(_, _, _, _)
siftup(heap, startpos, pos, newitem) ==
    LET endpos == Len(heap)
        leftpos == 2 * pos + 1
        rightpos == leftpos + 1
        childpos == IF rightpos < endpos /\ ~TupleLess(heap[leftpos + 1], heap[rightpos + 1])
                    THEN rightpos ELSE leftpos
    IN  IF leftpos < endpos
        THEN siftup([heap EXCEPT ![pos + 1] = heap[childpos + 1]], startpos, childpos, newitem)
        ELSE siftdown([heap EXCEPT ![pos + 1] = newitem], startpos, pos, newitem)

heappush(heap, item) == siftdown(Append(heap, item), 0, Len(heap), item)

\* heappop returns heap[0]; heappop_heap is the list it leaves.
heappop_item(heap) == heap[1]

heappop_heap(heap) ==
    LET lastelt == heap[Len(heap)]
        rest == SubSeq(heap, 1, Len(heap) - 1)
    IN  IF rest # <<>> THEN siftup(rest, 0, 0, lastelt) ELSE rest

\* ---- asyncio.Lock: a flag and the queue of the tasks waiting for it
UnlockedLock == [locked |-> FALSE, waiters |-> <<>>]

\* acquire() returns at once, without suspending, exactly in this case.
LockFree(lock) == ~lock.locked /\ lock.waiters = <<>>

Acquired(lock) == [lock EXCEPT !.locked = TRUE]

\* Otherwise acquire() queues the caller, which suspends until a release wakes it.
Enqueued(lock, t) == [lock EXCEPT !.waiters = Append(@, t)]

Released(lock) == [lock EXCEPT !.locked = FALSE]

\* ---- the job store
\* A wrong write: the status is set on every batch of the job.
SetBatchStatus_WholeJob(jobs, id, bid, s) ==
    LET k == JobIndex(jobs, id)
    IN  [jobs EXCEPT ![k].batches = [i \in 1..Len(jobs[k].batches) |->
                                        [jobs[k].batches[i] EXCEPT !.status = s]]]

SetBatchStatus(jobs, id, bid, s) ==
    LET k == JobIndex(jobs, id)
        i == BatchIndex(jobs[k], bid)
    IN  [jobs EXCEPT ![k].batches[i].status = s]

\* A wrong rule: COMPLETED as soon as one batch is.
AggregateStatus_AnyCompleted(batches) ==
    LET statuses == [i \in 1..Len(batches) |-> batches[i].status]
    IN  IF \E i \in 1..Len(statuses) : statuses[i] = "completed" THEN "completed"
        ELSE IF \E i \in 1..Len(statuses) : statuses[i] = "triggered" THEN "triggered"
        ELSE "yet_to_start"

\* update_ingestion_status: the job's status from the statuses of its batches.
AggregateStatus(batches) ==
    LET statuses == [i \in 1..Len(batches) |-> batches[i].status]
    IN  IF \A i \in 1..Len(statuses) : statuses[i] = "completed" THEN "completed"
        ELSE IF \E i \in 1..Len(statuses) : statuses[i] = "triggered" THEN "triggered"
        ELSE "yet_to_start"

\* A wrong recomputation: a job that has not started is moved one status at a
\* time, so a second call moves it again.
update_ingestion_status_OneMove(jobs, id) ==
    LET k == JobIndex(jobs, id)
        target == AggregateStatus(jobs[k].batches)
    IN  [jobs EXCEPT ![k].status =
            IF jobs[k].status = "yet_to_start" /\ target = "completed" THEN "triggered" ELSE target]

update_ingestion_status(jobs, id) ==
    LET k == JobIndex(jobs, id)
    IN  [jobs EXCEPT ![k].status = AggregateStatus(jobs[k].batches)]

\* ---- POST /ingest
\* A wrong validation: the upper end of the range is not checked.
ValidId_NoUpperBound(id) == 1 <= id

ValidId(id) == 1 <= id /\ id <= MaxItemId

\* The id the validation loop raises on: the first one out of range.
FirstInvalid(ids) == ids[CHOOSE i \in 1..Len(ids) :
                            ~ValidId(ids[i]) /\ \A h \in 1..(i - 1) : ValidId(ids[h])]

\* A wrong split: a last group of fewer than BatchSize ids is dropped.
RECURSIVE batch_slices_FullOnly(_, _)
batch_slices_FullOnly(ids, i) ==
    IF i + BatchSize > Len(ids) THEN <<>>
    ELSE <<SubSeq(ids, i + 1, i + BatchSize)>> \o batch_slices_FullOnly(ids, i + BatchSize)

\* for i in range(0, len(ids), 3): ids[i:i+3]
RECURSIVE batch_slices(_, _)
batch_slices(ids, i) ==
    IF i >= Len(ids) THEN <<>>
    ELSE <<SubSeq(ids, i + 1, Min(i + BatchSize, Len(ids)))>> \o batch_slices(ids, i + BatchSize)

MakeBatches(ids, batch_ids) ==
    LET slices == batch_slices(ids, 0)
    IN  [b \in 1..Len(slices) |->
            [batch_id |-> batch_ids[b], ids |-> slices[b], status |-> "yet_to_start"]]

priority_value(p) == CASE p = "HIGH" -> 0 [] p = "MEDIUM" -> 1 [] p = "LOW" -> 2

QueueEntry(priority, ingestion_id, batch) ==
    <<0 - priority_value(priority), ingestion_id, batch.batch_id, batch.ids>>

\* The heappush loop over batches.items(), which is in creation order.
RECURSIVE EnqueueBatches(_, _, _, _)
EnqueueBatches(heap, priority, ingestion_id, batches) ==
    IF batches = <<>> THEN heap
    ELSE EnqueueBatches(heappush(heap, QueueEntry(priority, ingestion_id, Head(batches))),
                        priority, ingestion_id, Tail(batches))

ingest_data(ids, priority) ==
    /\ request' = [op |-> "ingest", ids |-> ids, priority |-> priority]
    /\ IF \E i \in 1..Len(ids) : ~ValidId(ids[i])
       THEN /\ response' = [code |-> 400, detail |-> FirstInvalid(ids)]
            /\ UNCHANGED <<ingestion_jobs, task_queue, processing_lock, is_processing, pc, frame>>
       ELSE /\ Len(ingestion_jobs) < MaxJobs
            /\ \E ingestion_id \in Uuids \ UsedUuids(ingestion_jobs) :
                 \E batch_ids \in InjSeqs(Uuids \ (UsedUuids(ingestion_jobs) \cup {ingestion_id}),
                                          Len(batch_slices(ids, 0))) :
                   LET batches == MakeBatches(ids, batch_ids) IN
                   /\ ingestion_jobs' = Append(ingestion_jobs,
                           [ingestion_id |-> ingestion_id, status |-> "yet_to_start",
                            batches |-> batches, priority |-> priority])
                   /\ task_queue' = EnqueueBatches(task_queue, priority, ingestion_id, batches)
                   /\ response' = [code |-> 200, ingestion_id |-> ingestion_id]
            /\ UNCHANGED <<processing_lock, is_processing, pc, frame>>

\* ---- GET /status/{ingestion_id}
\* A wrong handler: the key is looked up without the membership test, which fails
\* with an unhandled error for an unknown key.
get_status_NoMembershipTest(ingestion_id) ==
    /\ request' = [op |-> "status", ingestion_id |-> ingestion_id]
    /\ response' =
         IF JobIndex(ingestion_jobs, ingestion_id) = 0
         THEN [code |-> 500, detail |-> "Internal Server Error"]
         ELSE LET job == ingestion_jobs[JobIndex(ingestion_jobs, ingestion_id)]
              IN  [code |-> 200, ingestion_id |-> ingestion_id, status |-> job.status,
                   batches |-> job.batches]
    /\ UNCHANGED <<ingestion_jobs, task_queue, processing_lock, is_processing, pc, frame>>

\* A wrong handler: the read is made under processing_lock.
get_status_UnderLock(ingestion_id) ==
    /\ LockFree(processing_lock)
    /\ request' = [op |-> "status", ingestion_id |-> ingestion_id]
    /\ response' =
         IF JobIndex(ingestion_jobs, ingestion_id) = 0
         THEN [code |-> 404, detail |-> "Ingestion ID not found"]
         ELSE LET job == ingestion_jobs[JobIndex(ingestion_jobs, ingestion_id)]
              IN  [code |-> 200, ingestion_id |-> ingestion_id, status |-> job.status,
                   batches |-> job.batches]
    /\ UNCHANGED <<ingestion_jobs, task_queue, processing_lock, is_processing, pc, frame>>

get_status(ingestion_id) ==
    /\ request' = [op |-> "status", ingestion_id |-> ingestion_id]
    /\ response' =
         IF JobIndex(ingestion_jobs, ingestion_id) = 0
         THEN [code |-> 404, detail |-> "Ingestion ID not found"]
         ELSE LET job == ingestion_jobs[JobIndex(ingestion_jobs, ingestion_id)]
              IN  [code |-> 200, ingestion_id |-> ingestion_id, status |-> job.status,
                   batches |-> job.batches]
    /\ UNCHANGED <<ingestion_jobs, task_queue, processing_lock, is_processing, pc, frame>>

\* ---- process_batch, up to its first suspension: the lock, then TRIGGERED
\* A wrong process_batch: the batch is marked COMPLETED at entry.
process_batch_enter_CompletedAtEntry(t, lock, ingestion_id, batch_id) ==
    IF LockFree(lock)
    THEN /\ processing_lock' = Acquired(lock)
         /\ ingestion_jobs' = SetBatchStatus(ingestion_jobs, ingestion_id, batch_id, "completed")
         /\ pc' = [pc EXCEPT ![t] = "api_call"]
    ELSE /\ processing_lock' = Enqueued(lock, t)
         /\ ingestion_jobs' = ingestion_jobs
         /\ pc' = [pc EXCEPT ![t] = "pb_lock_wait"]

process_batch_enter(t, lock, ingestion_id, batch_id) ==
    IF LockFree(lock)
    THEN /\ processing_lock' = Acquired(lock)
         /\ ingestion_jobs' = SetBatchStatus(ingestion_jobs, ingestion_id, batch_id, "triggered")
         /\ pc' = [pc EXCEPT ![t] = "api_call"]
    ELSE /\ processing_lock' = Enqueued(lock, t)
         /\ ingestion_jobs' = ingestion_jobs
         /\ pc' = [pc EXCEPT ![t] = "pb_lock_wait"]

\* simulate_external_api returns: lines 44-45, and after the last id lines 46-48,
\* the return into process_queue (lines 74-75) when the worker made the call.
\* The worker itself never gets here: it holds the lock when it calls process_batch.
process_batch_resume(t) ==
    /\ pc[t] = "api_call"
    /\ LET f == frame[t]
           results == Append(f.results, [id |-> f.ids[Len(f.results) + 1], data |-> "processed"])
       IN  IF Len(results) < Len(f.ids)
           THEN /\ frame' = [frame EXCEPT ![t].results = results]
                /\ UNCHANGED <<ingestion_jobs, processing_lock, is_processing, pc>>
           ELSE /\ ingestion_jobs' = update_ingestion_status(
                        SetBatchStatus(ingestion_jobs, f.ingestion_id, f.batch_id, "completed"),
                        f.ingestion_id)
                /\ processing_lock' = Released(processing_lock)
                /\ frame' = [frame EXCEPT ![t] = NoFrame]
                /\ is_processing' = IF t = "worker" THEN FALSE ELSE is_processing
                /\ pc' = [pc EXCEPT ![t] = IF t = "worker" THEN "rate_sleep" ELSE "idle"]
    /\ UNCHANGED <<task_queue, request, response>>

\* ---- process_queue
\* The worker runs again from the top of its loop: when it is first scheduled,
\* and after either sleep, where leaving the async with block releases the lock.
WorkerAtLoopTop == pc["worker"] \in {"start", "poll_sleep", "rate_sleep"}

LockAtLoopTop == IF pc["worker"] = "start" THEN processing_lock ELSE Released(processing_lock)

\* Lines 66-69: nothing to do, sleep 0.1 s holding the lock.
PQ_Idle ==
    /\ WorkerAtLoopTop
    /\ LockFree(LockAtLoopTop)
    /\ task_queue = <<>> \/ is_processing
    /\ processing_lock' = Acquired(LockAtLoopTop)
    /\ pc' = [pc EXCEPT !["worker"] = "poll_sleep"]
    /\ UNCHANGED <<ingestion_jobs, task_queue, is_processing, frame, request, response>>

\* A wrong worker: process_batch is started without being awaited and the flag is
\* not set, so the worker goes on to its 5 s sleep with the batch in flight.
PQ_Dequeue_NoAwait ==
    /\ WorkerAtLoopTop
    /\ LockFree(LockAtLoopTop)
    /\ ~(task_queue = <<>> \/ is_processing)
    /\ task_queue' = heappop_heap(task_queue)
    /\ LET e == heappop_item(task_queue) IN
         frame' = [frame EXCEPT !["worker"] =
                     [ingestion_id |-> e[2], batch_id |-> e[3], ids |-> e[4], results |-> <<>>]]
    /\ processing_lock' = Acquired(LockAtLoopTop)
    /\ pc' = [pc EXCEPT !["worker"] = "rate_sleep"]
    /\ UNCHANGED <<ingestion_jobs, is_processing, request, response>>

\* A wrong worker: the smallest entry is read and left on the heap.
PQ_Dequeue_Peek ==
    /\ WorkerAtLoopTop
    /\ LockFree(LockAtLoopTop)
    /\ ~(task_queue = <<>> \/ is_processing)
    /\ is_processing' = TRUE
    /\ task_queue' = task_queue
    /\ LET e == task_queue[1] IN
         /\ frame' = [frame EXCEPT !["worker"] =
                        [ingestion_id |-> e[2], batch_id |-> e[3], ids |-> e[4], results |-> <<>>]]
         /\ process_batch_enter("worker", Acquired(LockAtLoopTop), e[2], e[3])
    /\ UNCHANGED <<request, response>>

\* Lines 66-73: the flag, the pop and the call of process_batch, which runs to
\* its first suspension.
PQ_Dequeue ==
    /\ WorkerAtLoopTop
    /\ LockFree(LockAtLoopTop)
    /\ ~(task_queue = <<>> \/ is_processing)
    /\ is_processing' = TRUE
    /\ task_queue' = heappop_heap(task_queue)
    /\ LET e == heappop_item(task_queue) IN
         /\ frame' = [frame EXCEPT !["worker"] =
                        [ingestion_id |-> e[2], batch_id |-> e[3], ids |-> e[4], results |-> <<>>]]
         /\ process_batch_enter("worker", Acquired(LockAtLoopTop), e[2], e[3])
    /\ UNCHANGED <<request, response>>

\* ---- the service
\* The requests the scheduling model sends: valid lists of every length up to
\* MaxLen, and one list that is rejected.
Requests == SeqsUpTo({1}, MaxLen) \cup {<<0>>}

\* The requests that exercise ingest_data itself: the lists 1..n of every length
\* up to MaxLen, and each of them with one id replaced by the upper end of the
\* valid range or by a neighbour of the range on either side.
SampleIds(n) == [i \in 1..n |-> i]

IngestRequests ==
    UNION {{SampleIds(n)} \cup {[SampleIds(n) EXCEPT ![p] = v] :
                                    p \in 1..n, v \in {0, MaxItemId, MaxItemId + 1}} :
           n \in 1..MaxLen}

Init ==
    /\ ingestion_jobs = <<>>
    /\ task_queue = <<>>
    /\ processing_lock = UnlockedLock
    /\ is_processing = FALSE
    /\ pc = [t \in Tasks |-> IF t = "worker" THEN "start" ELSE "absent"]
    /\ frame = [t \in Tasks |-> NoFrame]
    /\ request = NoRequest
    /\ response = NoResponse

Ingest == \E ids \in Requests, priority \in Priority : ingest_data(ids, priority)

GetStatus == \E id \in Uuids : get_status(id)

Next == Ingest \/ GetStatus \/ PQ_Idle \/ PQ_Dequeue

Spec == Init /\ [][Next]_vars

FairSpec == Spec /\ WF_vars(PQ_Idle) /\ WF_vars(PQ_Dequeue)

\* ---- what the claims speak of
\* The order of priorities the specification names: HIGH above MEDIUM above LOW.
Rank(p) == CASE p = "HIGH" -> 3 [] p = "MEDIUM" -> 2 [] p = "LOW" -> 1

JobOf(id) == ingestion_jobs[JobIndex(ingestion_jobs, id)]

\* A step in which the worker takes an entry off task_queue.
DequeueStep == Len(task_queue') < Len(task_queue)

\* The place of a batch in the order of the heappush calls: jobs are stored, and
\* their batches pushed, in the order of creation.
EnqueuePos(id, bid) ==
    <<JobIndex(ingestion_jobs, id), BatchIndex(JobOf(id), bid)>>

EnqueuedBefore(p, q) == p[1] < q[1] \/ (p[1] = q[1] /\ p[2] < q[2])

\* C1: whenever the worker dequeues an entry, no entry of strictly higher
\* priority is in the queue at that moment.
C1_NoHigherPriorityQueued ==
    [][DequeueStep =>
        \A i \in 1..Len(task_queue) :
            Rank(JobOf(task_queue[i][2]).priority)
                <= Rank(JobOf(frame'["worker"].ingestion_id).priority)]_vars

\* C2: among queued entries of equal priority the worker dequeues in the order of
\* enqueueing: the entry it takes was pushed before every queued entry of its priority.
C2_FifoWithinPriority ==
    [][DequeueStep =>
        \A i \in 1..Len(task_queue') :
            JobOf(task_queue'[i][2]).priority = JobOf(frame'["worker"].ingestion_id).priority
                => EnqueuedBefore(
                       EnqueuePos(frame'["worker"].ingestion_id, frame'["worker"].batch_id),
                       EnqueuePos(task_queue'[i][2], task_queue'[i][3]))]_vars

AllBatches(job, st) == \A i \in 1..Len(job.batches) : job.batches[i].status = st

\* The k-th accepted job is COMPLETED with every one of its batches COMPLETED.
JobCompleted(k) ==
    /\ Len(ingestion_jobs) >= k
    /\ ingestion_jobs[k].status = "completed"
    /\ AllBatches(ingestion_jobs[k], "completed")

\* C3: under a fair scheduler every accepted job eventually is COMPLETED with
\* every one of its batches COMPLETED.
C3_EveryJobCompletes ==
    \A k \in 1..MaxJobs : [](Len(ingestion_jobs) >= k => <>JobCompleted(k))

\* A batch is queued while task_queue holds its entry; the worker has picked it
\* up once it no longer does.
Queued(id, bid) == \E i \in 1..Len(task_queue) : task_queue[i][2] = id /\ task_queue[i][3] = bid

PickedUp(job) == \E i \in 1..Len(job.batches) : ~Queued(job.ingestion_id, job.batches[i].batch_id)

\* A step that answers GET /status for a stored job.
StatusReadStep ==
    /\ request'.op = "status"
    /\ response'.code = 200
    /\ UNCHANGED <<ingestion_jobs, task_queue, processing_lock, is_processing, pc, frame>>

\* C4: a status read of a job of two or more batches returns YET_TO_START for the
\* job and all its batches right after ingestion, TRIGGERED once its first batch
\* has been picked up and until all are completed, and COMPLETED from then on.
C4_StatusReadFollowsProgress ==
    [][StatusReadStep /\ Len(response'.batches) >= 2 =>
        LET job == JobOf(response'.ingestion_id) IN
        /\ ~PickedUp(job) =>
              response'.status = "yet_to_start"
                  /\ \A i \in 1..Len(response'.batches) : response'.batches[i].status = "yet_to_start"
        /\ PickedUp(job) /\ ~AllBatches(job, "completed") => response'.status = "triggered"
        /\ AllBatches(job, "completed") => response'.status = "completed"]_vars

\* ---- process_batch on its own: awaited directly for a stored batch that was not
\* handed to it before, in a process whose worker was not started
process_batch_call(k, i) ==
    /\ pc["caller"] = "idle"
    /\ k \in 1..Len(ingestion_jobs)
    /\ i \in 1..Len(ingestion_jobs[k].batches)
    /\ ingestion_jobs[k].batches[i].status = "yet_to_start"
    /\ LET b == ingestion_jobs[k].batches[i] IN
         /\ frame' = [frame EXCEPT !["caller"] =
                        [ingestion_id |-> ingestion_jobs[k].ingestion_id, batch_id |-> b.batch_id,
                         ids |-> b.ids, results |-> <<>>]]
         /\ process_batch_enter("caller", processing_lock, ingestion_jobs[k].ingestion_id, b.batch_id)
    /\ UNCHANGED <<task_queue, is_processing, request, response>>

InitBatch ==
    /\ ingestion_jobs = <<>>
    /\ task_queue = <<>>
    /\ processing_lock = UnlockedLock
    /\ is_processing = FALSE
    /\ pc = [t \in Tasks |-> IF t = "worker" THEN "not_started" ELSE "idle"]
    /\ frame = [t \in Tasks |-> NoFrame]
    /\ request = NoRequest
    /\ response = NoResponse

CallProcessBatch == \E k \in 1..MaxJobs, i \in 1..MaxBatches : process_batch_call(k, i)

ResumeProcessBatch == process_batch_resume("caller")

NextBatch == Ingest \/ GetStatus \/ CallProcessBatch \/ ResumeProcessBatch

SpecBatch == InitBatch /\ [][NextBatch]_vars

\* ---- update_ingestion_status on its own: one stored job, every combination of
\* the statuses of up to MaxBatches batches and every earlier job status
StatusLists == UNION {[1..n -> BatchStatus] : n \in 1..MaxBatches}

InitAgg ==
    /\ \E sts \in StatusLists, old \in BatchStatus :
         ingestion_jobs = <<[ingestion_id |-> 1, status |-> old,
                             batches |-> [i \in 1..Len(sts) |->
                                            [batch_id |-> i + 1, ids |-> <<1>>, status |-> sts[i]]],
                             priority |-> "MEDIUM"]>>
    /\ task_queue = <<>>
    /\ processing_lock = UnlockedLock
    /\ is_processing = FALSE
    /\ pc = [t \in Tasks |-> IF t = "worker" THEN "not_started" ELSE "agg_call"]
    /\ frame = [t \in Tasks |-> NoFrame]
    /\ request = NoRequest
    /\ response = NoResponse

\* The call, and a second call right after it.
CallUpdateStatus ==
    /\ pc["caller"] \in {"agg_call", "agg_once"}
    /\ ingestion_jobs' = update_ingestion_status(ingestion_jobs, ingestion_jobs[1].ingestion_id)
    /\ pc' = [pc EXCEPT !["caller"] = IF pc["caller"] = "agg_call" THEN "agg_once" ELSE "agg_twice"]
    /\ UNCHANGED <<task_queue, processing_lock, is_processing, frame, request, response>>

NextAgg == CallUpdateStatus \/ GetStatus

SpecAgg == InitAgg /\ [][NextAgg]_vars

AllIdsValid(ids) == \A i \in 1..Len(ids) : ValidId(ids[i])

IngestAny ==
    \E ids \in IngestRequests, priority \in Priority :
        /\ AllIdsValid(ids) => Len(ingestion_jobs) < MaxIngestJobs
        /\ ingest_data(ids, priority)

NextIngest == IngestAny \/ GetStatus \/ PQ_Idle \/ PQ_Dequeue

SpecIngest == Init /\ [][NextIngest]_vars

\* The rule of the specification for a job's status.
RuleStatus(job) ==
    IF AllBatches(job, "completed") THEN "completed"
    ELSE IF \E i \in 1..Len(job.batches) : job.batches[i].status = "triggered" THEN "triggered"
    ELSE "yet_to_start"

\* C6: in every state a status read can see, each job's stored status is the rule
\* applied to the current statuses of its batches.
C6_StoredStatusIsAggregate ==
    \A k \in 1..Len(ingestion_jobs) : ingestion_jobs[k].status = RuleStatus(ingestion_jobs[k])

\* The batches of all jobs, as pairs of job key and batch key.
BatchKeys ==
    UNION {{<<ingestion_jobs[k].ingestion_id, ingestion_jobs[k].batches[i].batch_id>> :
                i \in 1..Len(ingestion_jobs[k].batches)} : k \in 1..Len(ingestion_jobs)}

StatusOf(key) == JobOf(key[1]).batches[BatchIndex(JobOf(key[1]), key[2])].status

\* A batch is in flight from its dequeue until it is COMPLETED.
InFlight == {key \in BatchKeys : ~Queued(key[1], key[2]) /\ StatusOf(key) # "completed"}

\* C7: at most one batch is being processed: at most one batch is TRIGGERED, at
\* most one call of process_batch is between TRIGGERED and COMPLETED, and at most
\* one batch is dequeued and not yet COMPLETED.
C7_AtMostOneInFlight ==
    /\ Cardinality({key \in BatchKeys : StatusOf(key) = "triggered"}) <= 1
    /\ Cardinality({t \in Tasks : pc[t] = "api_call"}) <= 1
    /\ Cardinality(InFlight) <= 1

\* The worker is inside process_batch with the one batch in flight while another
\* batch waits in the queue.
C7_Witness ==
    /\ Cardinality(InFlight) = 1
    /\ is_processing
    /\ pc["worker"] = "pb_lock_wait"
    /\ <<frame["worker"].ingestion_id, frame["worker"].batch_id>> \in InFlight
    /\ task_queue # <<>>

\* A step that answers POST /ingest.
IngestStep ==
    /\ request'.op = "ingest"
    /\ UNCHANGED <<processing_lock, is_processing, pc, frame>>

InRange(ids) == \A i \in 1..Len(ids) : 1 <= ids[i] /\ ids[i] <= 1000000007

RECURSIVE ConcatIds(_)
ConcatIds(batches) == IF batches = <<>> THEN <<>> ELSE Head(batches).ids \o ConcatIds(Tail(batches))

\* C9: a valid request of n ids creates one job of ceil(n/3) batches of 1 to 3 ids
\* each, whose ids in creation order are the ids of the request.
C9_BatchesSplitRequest ==
    [][IngestStep /\ InRange(request'.ids) =>
        /\ Len(ingestion_jobs') = Len(ingestion_jobs) + 1
        /\ LET job == ingestion_jobs'[Len(ingestion_jobs')]
               n == Len(request'.ids)
           IN  /\ Len(job.batches) = (n + 2) \div 3
               /\ \A i \in 1..Len(job.batches) : Len(job.batches[i].ids) \in 1..3
               /\ ConcatIds(job.batches) = request'.ids]_vars

\* A request of four ids was accepted and stored as a batch of three and one of one.
C9_Witness ==
    /\ request.op = "ingest"
    /\ response.code = 200
    /\ Len(request.ids) = 4
    /\ Len(ingestion_jobs) >= 1
    /\ LET job == ingestion_jobs[Len(ingestion_jobs)] IN
         /\ job.ingestion_id = response.ingestion_id
         /\ Len(job.batches) = 2
         /\ job.batches[1].ids = SubSeq(request.ids, 1, 3)
         /\ job.batches[2].ids = SubSeq(request.ids, 4, 4)

\* C10: a request with an id outside [1, 1000000007], wherever in the list, is
\* answered 400 and leaves ingestion_jobs and task_queue as they were.
C10_InvalidIdRejected ==
    [][IngestStep /\ ~InRange(request'.ids) =>
        /\ response'.code = 400
        /\ UNCHANGED <<ingestion_jobs, task_queue>>]_vars

\* A request whose last id of several is out of range was answered 400 with a job
\* stored and a batch queued.
C10_Witness ==
    /\ request.op = "ingest"
    /\ Len(request.ids) >= 3
    /\ InRange(SubSeq(request.ids, 1, Len(request.ids) - 1))
    /\ request.ids[Len(request.ids)] > 1000000007
    /\ response.code = 400
    /\ Len(ingestion_jobs) = 1
    /\ task_queue # <<>>

\* A step that answers GET /status.
StatusStep ==
    /\ request'.op = "status"
    /\ UNCHANGED <<processing_lock, is_processing, pc, frame>>

IsKey(id) == \E k \in 1..Len(ingestion_jobs) : ingestion_jobs[k].ingestion_id = id

\* C11: get_status of an id that is no key of ingestion_jobs answers 404, in every
\* reachable state, and get_status, found or not, leaves ingestion_jobs and
\* task_queue as they were.
C11_UnknownIdNotFound ==
    [][StatusStep =>
        /\ ~IsKey(request'.ingestion_id) => response'.code = 404
        /\ UNCHANGED <<ingestion_jobs, task_queue>>]_vars

\* An unknown id was answered 404 while a job is stored, its batch dequeued.
C11_Witness ==
    /\ request.op = "status"
    /\ ~IsKey(request.ingestion_id)
    /\ response.code = 404
    /\ Len(ingestion_jobs) >= 1
    /\ pc["worker"] = "pb_lock_wait"

\* The worker is inside an async with processing_lock block.
WorkerInLockBlock == pc["worker"] \in {"poll_sleep", "pb_lock_wait", "api_call", "rate_sleep"}

\* The model has room for the job a valid request creates.
RoomFor(ids) ==
    /\ Len(ingestion_jobs) < MaxJobs
    /\ Cardinality(Uuids \ UsedUuids(ingestion_jobs)) >= 1 + ((Len(ids) + 2) \div 3)

\* C12: both handlers can run to completion in every reachable state of the
\* worker, also while it holds processing_lock: neither waits for the lock or
\* for the worker.
C12_HandlersNeverBlocked ==
    /\ \A id \in Uuids : ENABLED get_status(id)
    /\ \A ids \in Requests, priority \in Priority :
         (InRange(ids) => RoomFor(ids)) => ENABLED ingest_data(ids, priority)

\* A job was ingested, and answered 200, after the worker took the lock and
\* dequeued the batch of an earlier job.
C12_Witness ==
    /\ processing_lock.locked
    /\ pc["worker"] = "pb_lock_wait"
    /\ request.op = "ingest"
    /\ response.code = 200
    /\ response.ingestion_id # frame["worker"].ingestion_id
    /\ \A i \in 1..Len(JobOf(response.ingestion_id).batches) :
         Queued(response.ingestion_id, JobOf(response.ingestion_id).batches[i].batch_id)
    /\ Len(ingestion_jobs) = 2
    /\ ingestion_jobs[2].ingestion_id = response.ingestion_id

\* The moves a batch status may make in one step.
StatusMove(a, b) ==
    \/ a = b
    \/ a = "yet_to_start" /\ b = "triggered"
    \/ a = "triggered" /\ b = "completed"

\* C13: batch status is monotonic: a batch only ever moves YET_TO_START to
\* TRIGGERED and TRIGGERED to COMPLETED, and a COMPLETED batch stays COMPLETED.
C13_BatchStatusMonotonic ==
    [][\A k \in 1..Len(ingestion_jobs) : \A i \in 1..Len(ingestion_jobs[k].batches) :
         /\ k <= Len(ingestion_jobs')
         /\ i <= Len(ingestion_jobs'[k].batches)
         /\ ingestion_jobs'[k].batches[i].batch_id = ingestion_jobs[k].batches[i].batch_id
         /\ StatusMove(ingestion_jobs[k].batches[i].status, ingestion_jobs'[k].batches[i].status)]_vars

\* One batch went through both moves and a later call has a second batch TRIGGERED.
C13_Witness ==
    /\ \E key \in BatchKeys : StatusOf(key) = "completed"
    /\ \E key \in BatchKeys : StatusOf(key) = "triggered"
    /\ pc["caller"] = "api_call"

\* C14: a batch has an entry in task_queue exactly when its status is
\* YET_TO_START, in every reachable state.
C14_QueuedIffYetToStart ==
    \A key \in BatchKeys : Queued(key[1], key[2]) <=> StatusOf(key) = "yet_to_start"

\* The positions of a batch id in a queue.
EntriesOf(q, bid) == {i \in 1..Len(q) : q[i][3] = bid}

\* The batch a task has taken and not finished.
Holds(t, bid) == frame[t] # NoFrame /\ frame[t].batch_id = bid

\* C15: each batch is pushed onto task_queue once, when its job is created, and
\* popped at most once: the queue never holds a batch id twice, a batch that has
\* left the queue never returns, and the batch the worker has taken is not queued.
C15_PushedOncePoppedOnce ==
    [][/\ \A key \in BatchKeys' :
            /\ Cardinality(EntriesOf(task_queue', key[2])) <= 1
            /\ key \notin BatchKeys => Cardinality(EntriesOf(task_queue', key[2])) = 1
            /\ key \in BatchKeys /\ EntriesOf(task_queue, key[2]) = {}
                 => EntriesOf(task_queue', key[2]) = {}
            /\ Holds("worker", key[2])' => EntriesOf(task_queue', key[2]) = {}
       /\ \A i \in 1..Len(task_queue') : <<task_queue'[i][2], task_queue'[i][3]>> \in BatchKeys'
       /\ Len(task_queue') + 1 >= Len(task_queue)]_vars

\* The worker has popped the batch of one job, and the batch of a job created
\* after the pop is queued.
C15_Witness ==
    /\ frame["worker"] # NoFrame
    /\ ~Queued(frame["worker"].ingestion_id, frame["worker"].batch_id)
    /\ Len(ingestion_jobs) = 2
    /\ ingestion_jobs[1].ingestion_id = frame["worker"].ingestion_id
    /\ Len(ingestion_jobs[1].batches) = 1
    /\ \E key \in BatchKeys : key[1] = ingestion_jobs[2].ingestion_id /\ Queued(key[1], key[2])

\* C16: a batch the worker has dequeued is TRIGGERED from its dequeue, before any
\* external call, until it is set COMPLETED.
C16_DequeuedIsTriggered ==
    \A key \in BatchKeys : Holds("worker", key[2]) => StatusOf(key) = "triggered"

\* What is fixed for a job at its creation: its id, its priority and, for each
\* batch in order, the batch id and the ids list.
FixedPart(job) ==
    [ingestion_id |-> job.ingestion_id,
     priority |-> job.priority,
     batches |-> [i \in 1..Len(job.batches) |->
                    [batch_id |-> job.batches[i].batch_id, ids |-> job.batches[i].ids]]]

\* C18: once a job is created no step changes its batch ids, a batch's ids list
\* or its priority, and no job is removed; a status field changes only for the
\* batch that process_batch is processing and for that batch's job.
C18_OnlyStatusChanges ==
    [][/\ Len(ingestion_jobs') >= Len(ingestion_jobs)
       /\ \A k \in 1..Len(ingestion_jobs) :
            /\ FixedPart(ingestion_jobs'[k]) = FixedPart(ingestion_jobs[k])
            /\ \A i \in 1..Len(ingestion_jobs[k].batches) :
                 ingestion_jobs'[k].batches[i].status # ingestion_jobs[k].batches[i].status
                   => \E t \in Tasks : \/ Holds(t, ingestion_jobs[k].batches[i].batch_id)
                                       \/ Holds(t, ingestion_jobs[k].batches[i].batch_id)'
            /\ ingestion_jobs'[k].status # ingestion_jobs[k].status
                 => \E t \in Tasks : /\ frame[t] # NoFrame
                                     /\ frame[t].ingestion_id = ingestion_jobs[k].ingestion_id]_vars

\* The batch of the first job is COMPLETED, and so is the job; a second job was
\* stored beside it, is untouched, and a status read was answered.
C18_Witness ==
    /\ Len(ingestion_jobs) = 2
    /\ ingestion_jobs[1].status = "completed"
    /\ ingestion_jobs[1].batches[1].status = "completed"
    /\ ingestion_jobs[2].status = "yet_to_start"
    /\ ingestion_jobs[2].batches[1].status = "yet_to_start"
    /\ request.op = "status"
    /\ response.code = 200

\* C19: update_ingestion_status is idempotent: a second call right after the
\* first leaves the job's status, and the whole store, as the first call left it.
C19_UpdateIdempotent ==
    [][pc["caller"] = "agg_once" /\ pc'["caller"] = "agg_twice"
         => ingestion_jobs' = ingestion_jobs]_vars

\* Both calls have run on a job stored as YET_TO_START whose batches are all
\* COMPLETED: the first call changed the status, the second had it to keep.
C19_Witness ==
    /\ pc["caller"] = "agg_twice"
    /\ Len(ingestion_jobs[1].batches) >= 2
    /\ AllBatches(ingestion_jobs[1], "completed")
    /\ ingestion_jobs[1].status = "completed"

\* C20: the worker never waits for processing_lock while it holds it: the
\* acquisition in process_batch, inside the worker's own lock block, succeeds.
C20_WorkerNeverWaitsOnItself ==
    ~(/\ WorkerInLockBlock
      /\ processing_lock.locked
      /\ \E i \in 1..Len(processing_lock.waiters) : processing_lock.waiters[i] = "worker")

====
